---- MODULE Spec2Model ----
(***************************************************************************)
(* Qi::CacheSpace (src/src/cache/space/CacheSpace.{h,cpp}): the viewport   *)
(* cache of the qt-items framework.  The model keeps the fields of the     *)
(* object, the items held by the concrete subclass, the signals emitted    *)
(* by the last operation and the stack of operations that are suspended    *)
(* in a callback (a visitor, a preDraw observer, an item's controllers).   *)
(***************************************************************************)
EXTENDS Integers, Sequences, FiniteSets, TLC

(* ---- bounds ---------------------------------------------------------- *)
MaxCoord == 1
MaxExtent == 1
MaxScroll == 1
NumItems == 2
MaxViews == 2
MaxFactory == 3
MaxDepth == 2
MaxEcho == 2

(* ---- ChangeReason ---------------------------------------------------- *)
\* A ChangeReason is a bitmask; it is kept as the set of its bits, so that
\* (a & b) != 0 is a non-empty intersection and a | b is a union.
ChangeReasonSpaceStructure == "SpaceStructure"
ChangeReasonSpaceHint == "SpaceHint"
ChangeReasonSpaceItemsStructure == "SpaceItemsStructure"
ChangeReasonSpaceItemsContent == "SpaceItemsContent"
ChangeReasonCacheContent == "CacheContent"
ChangeReasonUnknown == "Unknown"

ChangeReasonBits ==
    { ChangeReasonSpaceStructure, ChangeReasonSpaceHint,
      ChangeReasonSpaceItemsStructure, ChangeReasonSpaceItemsContent,
      ChangeReasonCacheContent, ChangeReasonUnknown }

ChangeReason == SUBSET ChangeReasonBits

HasBits(reason, bits) == reason \cap bits # {}

(* ---- QPoint, QSize, QRect -------------------------------------------- *)
QPoint(x, y) == [x |-> x, y |-> y]
PointAdd(a, b) == [x |-> a.x + b.x, y |-> a.y + b.y]
PointSub(a, b) == [x |-> a.x - b.x, y |-> a.y - b.y]

QSize(w, h) == [w |-> w, h |-> h]
SizeAdd(a, b) == [w |-> a.w + b.w, h |-> a.h + b.h]
SizeSub(a, b) == [w |-> a.w - b.w, h |-> a.h - b.h]

\* QRect keeps its two corners; QRect(left, top, width, height).
QRect(left, top, width, height) ==
    [x1 |-> left, y1 |-> top, x2 |-> left + width - 1, y2 |-> top + height - 1]

topLeft(r) == QPoint(r.x1, r.y1)
size(r) == QSize(r.x2 - r.x1 + 1, r.y2 - r.y1 + 1)

\* QRect::normalized() of Qt 5: a rectangle of negative width (height) has
\* its x (y) corners swapped.
normalized(r) ==
    [x1 |-> IF r.x2 < r.x1 - 1 THEN r.x2 ELSE r.x1,
     x2 |-> IF r.x2 < r.x1 - 1 THEN r.x1 ELSE r.x2,
     y1 |-> IF r.y2 < r.y1 - 1 THEN r.y2 ELSE r.y1,
     y2 |-> IF r.y2 < r.y1 - 1 THEN r.y1 ELSE r.y2]

ZeroPoint == QPoint(0, 0)
ZeroSize == QSize(0, 0)
NullRect == QRect(0, 0, 0, 0)

(* ---- inputs ---------------------------------------------------------- *)
ItemIDs == 1..NumItems
Masks == {"Draw", "Edit"}

\* rectangles a caller hands to setWindow: at the origin and away from it,
\* of negative extent (not normalized), empty and not empty
RectInputs == { QRect(x, 0, w, w) : x \in {0, MaxCoord}, w \in {-1, 0, MaxExtent} }
\* scroll positions: none, along x, along y
PointInputs == { QPoint(0, 0), QPoint(MaxScroll, 0), QPoint(0, MaxScroll) }

(* ---- state ----------------------------------------------------------- *)
VARIABLES
    m_viewApplicationMask,  \* CacheSpace.h:91
    m_cacheItemsFactory,    \* CacheSpace.h:94, [mask, gen]: made by the Space for mask, gen-th factory
    m_window,               \* CacheSpace.h:97
    m_scrollOffset,         \* CacheSpace.h:99
    m_scrollDelta,          \* CacheSpace.h:102
    m_sizeDelta,            \* CacheSpace.h:103
    m_itemsCacheInvalid,    \* CacheSpace.h:105
    m_cacheIsInUse,         \* CacheSpace.h:108
    cacheItems,             \* the subclass's container, in forEachCacheItemImpl order
    factoriesCreated,       \* number of factories the Space has created so far
    debugBuild,             \* TRUE: Q_ASSERT aborts; FALSE (QT_NO_DEBUG): Q_ASSERT is empty
    aborted,                \* a Q_ASSERT has aborted the program
    violation,              \* the last operation reached a Q_ASSERT whose condition was false
    emitted,                \* reasons of the cacheChanged signals of the last operation, in order
    validatedWindow,        \* m_window when validateItemsCacheImpl last completed
    validatedScrollOffset,  \* m_scrollOffset when validateItemsCacheImpl last completed
    m_drawProxy,            \* CacheSpace.h:111, TRUE: a proxy is installed
    fired,                  \* some Q_ASSERT so far was reached with a false condition
    trace,                  \* what the last operation did, in order
    dropped,                \* "pending": a SpaceStructure event was handled and no
                            \* validation has run since; "refilled": the last operation
                            \* ran the first validation after such an event; else "no"
    stack,                  \* operations suspended in a callback, outermost first
    lastOp,                 \* the last operation and its arguments
    echoChain               \* consecutive echoed events that each emitted cacheChanged

objVars == << m_viewApplicationMask, m_cacheItemsFactory, m_window, m_scrollOffset,
              m_scrollDelta, m_sizeDelta, m_itemsCacheInvalid, m_cacheIsInUse,
              cacheItems, factoriesCreated, debugBuild, aborted, violation, emitted,
              validatedWindow, validatedScrollOffset, m_drawProxy, fired, trace,
              dropped >>

vars == << m_viewApplicationMask, m_cacheItemsFactory, m_window, m_scrollOffset,
           m_scrollDelta, m_sizeDelta, m_itemsCacheInvalid, m_cacheIsInUse,
           cacheItems, factoriesCreated, debugBuild, aborted, violation, emitted,
           validatedWindow, validatedScrollOffset, m_drawProxy, fired, trace,
           dropped, stack, lastOp, echoChain >>

\* The object as one value, so that a member function is an operator from
\* the object before the call to the object after it.
Cur ==
    [ mask |-> m_viewApplicationMask, factory |-> m_cacheItemsFactory,
      window |-> m_window, scrollOffset |-> m_scrollOffset,
      scrollDelta |-> m_scrollDelta, sizeDelta |-> m_sizeDelta,
      itemsCacheInvalid |-> m_itemsCacheInvalid, cacheIsInUse |-> m_cacheIsInUse,
      items |-> cacheItems, factoriesCreated |-> factoriesCreated,
      debug |-> debugBuild, aborted |-> aborted, violation |-> violation,
      emitted |-> emitted,
      validatedWindow |-> validatedWindow,
      validatedScrollOffset |-> validatedScrollOffset,
      drawProxy |-> m_drawProxy, fired |-> fired, trace |-> trace,
      dropped |-> dropped ]

\* the object at the start of an operation: nothing emitted, nothing detected,
\* nothing done
Fresh ==
    [Cur EXCEPT !.emitted = << >>, !.violation = FALSE, !.trace = << >>,
                !.dropped = IF @ = "refilled" THEN "no" ELSE @]

Apply(s) ==
    /\ m_viewApplicationMask' = s.mask
    /\ m_cacheItemsFactory' = s.factory
    /\ m_window' = s.window
    /\ m_scrollOffset' = s.scrollOffset
    /\ m_scrollDelta' = s.scrollDelta
    /\ m_sizeDelta' = s.sizeDelta
    /\ m_itemsCacheInvalid' = s.itemsCacheInvalid
    /\ m_cacheIsInUse' = s.cacheIsInUse
    /\ cacheItems' = s.items
    /\ factoriesCreated' = s.factoriesCreated
    /\ debugBuild' = s.debug
    /\ aborted' = s.aborted
    /\ violation' = s.violation
    /\ emitted' = s.emitted
    /\ validatedWindow' = s.validatedWindow
    /\ validatedScrollOffset' = s.validatedScrollOffset
    /\ m_drawProxy' = s.drawProxy
    /\ fired' = s.fired
    /\ trace' = s.trace
    /\ dropped' = s.dropped

(* ---- collaborators ---------------------------------------------------- *)
\* one step of an operation: what was done and to which items
Event(ev, ids) == [ev |-> ev, ids |-> ids]
Log(s, ev, ids) == [s EXCEPT !.trace = Append(@, Event(ev, ids))]

\* a step done to every cached item, in forEachCacheItemImpl order
LogItems(s, ev) ==
    [s EXCEPT !.trace = @ \o [k \in 1..Len(s.items) |-> Event(ev, {s.items[k].id})]]

\* the steps of the kind ev among tr, as a sequence
Events(tr, ev) == SelectSeq(tr, LAMBDA e : e.ev = ev)

\* Q_ASSERT(cond): aborts in a debug build, expands to nothing otherwise
Q_ASSERT(s, cond) ==
    IF cond THEN s
    ELSE [s EXCEPT !.violation = TRUE, !.fired = TRUE, !.aborted = s.debug]

\* emit cacheChanged(this, reason)
cacheChanged(s, reason) ==
    Log([s EXCEPT !.emitted = Append(@, reason)], "cacheChanged", {})

\* Space::createCacheItemFactory(mask): a new factory for the mask
createCacheItemFactory(s, mask) ==
    [s EXCEPT !.factory = [mask |-> mask, gen |-> s.factoriesCreated + 1],
              !.factoriesCreated = @ + 1]

\* number of view nodes the schema gives the item
SchemaViews(id) == ((id - 1) % MaxViews) + 1

\* CacheItem::invalidateCacheView, CacheItemFactory::updateSchema,
\* CacheItem::validateCacheView
invalidateCacheView(item) == [item EXCEPT !.view = 0]
updateSchema(factory, item) ==
    [item EXCEPT !.schema = factory.gen, !.schemaCount = @ + 1]
validateCacheView(item) ==
    IF item.view = 0 THEN [item EXCEPT !.view = SchemaViews(item.id)] ELSE item

\* forEachCacheItemImpl with a visitor that returns true: the positions of
\* the items it visits, every one
forEachCacheItemImpl(s) == 1..Len(s.items)

\* clearItemsCacheImpl: the subclass drops every item
CachedIDs(items) == { items[k].id : k \in 1..Len(items) }
clearItemsCacheImpl(s) ==
    [Log(s, "clearItemsCacheImpl", CachedIDs(s.items)) EXCEPT !.items = << >>]

ItemOf(items, id) == items[CHOOSE k \in 1..Len(items) : items[k].id = id]
IDsInOrder(ids) == SelectSeq([i \in 1..NumItems |-> i], LAMBDA i : i \in ids)

(* ---- CacheSpace member functions -------------------------------------- *)
\* an invalidation that does not announce itself
invalidateItemsCache_silent(s) ==
    IF s.aborted THEN s
    ELSE LET a == Q_ASSERT(s, ~s.cacheIsInUse)
         IN  IF a.aborted THEN a
             ELSE Log([a EXCEPT !.itemsCacheInvalid = TRUE], "itemsCacheInvalid", {})

\* CacheSpace.cpp:112-118
invalidateItemsCache(s) ==
    IF s.aborted THEN s
    ELSE LET a == Q_ASSERT(s, ~s.cacheIsInUse)
         IN  IF a.aborted THEN a
             ELSE cacheChanged(Log([a EXCEPT !.itemsCacheInvalid = TRUE],
                                   "itemsCacheInvalid", {}),
                               {ChangeReasonCacheContent})

\* CacheSpace.cpp:120-124
clearItemsCache(s) ==
    IF s.aborted THEN s
    ELSE LET a == Q_ASSERT(s, ~s.cacheIsInUse)
         IN  IF a.aborted THEN a ELSE clearItemsCacheImpl(a)

\* a clear that marks the cache invalid and keeps the items
clear_invalidatesOnly(s) == invalidateItemsCache(s)

\* CacheSpace.cpp:106-110
clear(s) == invalidateItemsCache(clearItemsCache(s))

\* CacheSpace.cpp:126-129: an item made by the current factory, view not built
createCacheItem(s, id) ==
    [id |-> id, view |-> 0, schema |-> s.factory.gen, schemaCount |-> 0]

\* validateItemsCacheImpl: the subclass makes the cache hold the items the
\* Space reports visible (visible), keeps the entries it already has, clears
\* the flag and zeroes both journals.
validateItemsCacheImpl(s, visible) ==
    LET ids == IDsInOrder(visible)
    IN  [Log(s, "validateItemsCacheImpl", visible) EXCEPT
            !.dropped = IF @ = "pending" THEN "refilled" ELSE @,
            !.items = [k \in 1..Len(ids) |->
                          IF ids[k] \in CachedIDs(s.items)
                          THEN ItemOf(s.items, ids[k])
                          ELSE createCacheItem(s, ids[k])],
            !.itemsCacheInvalid = FALSE,
            !.scrollDelta = ZeroPoint,
            !.sizeDelta = ZeroSize,
            !.validatedWindow = s.window,
            !.validatedScrollOffset = s.scrollOffset]

\* a validation that has no early return
validateItemsCache_always(s, visible) ==
    IF s.aborted THEN s ELSE validateItemsCacheImpl(s, visible)

\* a validation whose early return is taken on the wrong value of the flag
validateItemsCache_inverted(s, visible) ==
    IF s.aborted THEN s
    ELSE IF s.itemsCacheInvalid THEN s
    ELSE validateItemsCacheImpl(s, visible)

\* CacheSpace.cpp:131-137
validateItemsCache(s, visible) ==
    IF s.aborted THEN s
    ELSE IF ~s.itemsCacheInvalid THEN s
    ELSE validateItemsCacheImpl(s, visible)

\* a rebuild that re-schemas the items and leaves their views built
updateCacheItemsFactory_keepsViews(s) ==
    IF s.aborted THEN s
    ELSE LET f == createCacheItemFactory(s, s.mask)
         IN  [f EXCEPT !.items = [k \in forEachCacheItemImpl(f) |->
                                     updateSchema(f.factory, f.items[k])]]

\* CacheSpace.cpp:247-258
updateCacheItemsFactory(s) ==
    IF s.aborted THEN s
    ELSE LET f == createCacheItemFactory(s, s.mask)
         IN  [f EXCEPT !.items = [k \in forEachCacheItemImpl(f) |->
                                     updateSchema(f.factory,
                                                  invalidateCacheView(f.items[k]))]]

\* a handler that forwards the reason after the clear of a structure change
onSpaceChanged_forwardsStructure(s, reason) ==
    IF s.aborted THEN s
    ELSE IF HasBits(reason, {ChangeReasonSpaceStructure})
         THEN LET c == clear(s)
              IN  IF c.aborted THEN c
                  ELSE cacheChanged(c, reason \cup {ChangeReasonCacheContent})
    ELSE IF HasBits(reason, {ChangeReasonSpaceHint, ChangeReasonSpaceItemsStructure})
         THEN cacheChanged(updateCacheItemsFactory(s),
                           reason \cup {ChangeReasonCacheContent})
    ELSE IF HasBits(reason, {ChangeReasonSpaceItemsContent})
         THEN cacheChanged(s, reason \cup {ChangeReasonCacheContent})
    ELSE s

\* a handler that rebuilds the factory on a content change too
onSpaceChanged_contentRebuilds(s, reason) ==
    IF s.aborted THEN s
    ELSE IF HasBits(reason, {ChangeReasonSpaceStructure})
         THEN clear(s)
    ELSE IF HasBits(reason, {ChangeReasonSpaceHint, ChangeReasonSpaceItemsStructure,
                             ChangeReasonSpaceItemsContent})
         THEN cacheChanged(updateCacheItemsFactory(s),
                           reason \cup {ChangeReasonCacheContent})
    ELSE s

\* a handler that forwards every reason it does not act on
onSpaceChanged_forwardsAll(s, reason) ==
    IF s.aborted THEN s
    ELSE IF HasBits(reason, {ChangeReasonSpaceStructure})
         THEN clear(s)
    ELSE IF HasBits(reason, {ChangeReasonSpaceHint, ChangeReasonSpaceItemsStructure})
         THEN cacheChanged(updateCacheItemsFactory(s),
                           reason \cup {ChangeReasonCacheContent})
    ELSE cacheChanged(s, reason \cup {ChangeReasonCacheContent})

\* CacheSpace.cpp:31-52
onSpaceChanged(s, reason) ==
    IF s.aborted THEN s
    ELSE IF HasBits(reason, {ChangeReasonSpaceStructure})
         THEN clear(s)
    ELSE IF HasBits(reason, {ChangeReasonSpaceHint, ChangeReasonSpaceItemsStructure})
         THEN cacheChanged(updateCacheItemsFactory(s),
                           reason \cup {ChangeReasonCacheContent})
    ELSE IF HasBits(reason, {ChangeReasonSpaceItemsContent})
         THEN cacheChanged(s, reason \cup {ChangeReasonCacheContent})
    ELSE s

\* CacheSpace.cpp:54-61 (m_viewApplicationMask is compared, never assigned)
setViewApplicationMask(s, viewApplicationMask) ==
    IF s.aborted THEN s
    ELSE IF s.mask # viewApplicationMask
         THEN cacheChanged(updateCacheItemsFactory(s), {ChangeReasonCacheContent})
    ELSE s

\* CacheSpace.cpp:63-76
setWindow(s, window) ==
    IF s.aborted THEN s
    ELSE IF s.window = window THEN s
    ELSE LET _window == normalized(window)
             delta == PointSub(topLeft(_window), topLeft(s.window))
         IN  invalidateItemsCache(
                 [s EXCEPT !.scrollDelta = PointAdd(@, delta),
                           !.sizeDelta = SizeAdd(@, SizeSub(size(_window), size(s.window))),
                           !.window = _window])

\* a scroll that journals the offset change without negating it
setScrollOffset_signSlip(s, scrollOffset) ==
    IF s.aborted THEN s
    ELSE IF s.scrollOffset = scrollOffset THEN s
    ELSE LET offset == PointSub(scrollOffset, s.scrollOffset)
         IN  invalidateItemsCache(
                 [s EXCEPT !.scrollDelta = PointAdd(@, offset),
                           !.scrollOffset = scrollOffset])

\* CacheSpace.cpp:78-88
setScrollOffset(s, scrollOffset) ==
    IF s.aborted THEN s
    ELSE IF s.scrollOffset = scrollOffset THEN s
    ELSE LET offset == PointSub(s.scrollOffset, scrollOffset)
         IN  invalidateItemsCache(
                 [s EXCEPT !.scrollDelta = PointAdd(@, offset),
                           !.scrollOffset = scrollOffset])

\* CacheSpace.cpp:90-94
set(s, window, scrollOffset) == setScrollOffset(setWindow(s, window), scrollOffset)

\* CacheSpace.h:37, CacheSpace.cpp:96-104
originPos(s) == PointSub(topLeft(s.window), s.scrollOffset)
\* a conversion that takes the scroll offset with the wrong sign
window2Space_signSlip(s, windowPoint) ==
    PointSub(PointSub(windowPoint, topLeft(s.window)), s.scrollOffset)

window2Space(s, windowPoint) ==
    PointAdd(PointSub(windowPoint, topLeft(s.window)), s.scrollOffset)
space2Window(s, spacePoint) ==
    PointAdd(PointSub(spacePoint, s.scrollOffset), topLeft(s.window))

\* utils/auto_value.h: auto_value<bool> inUse(m_cacheIsInUse, true) stores
\* the new value for the life of the scope and puts the old value back
auto_value(s, newValue) == Log([s EXCEPT !.cacheIsInUse = newValue], "inUse", {})
auto_value_restore(s, oldValue) == [s EXCEPT !.cacheIsInUse = oldValue]

\* CacheSpace.cpp:139-149: the entry the subclass finds, index into the
\* items or 0 for null; found is the subclass's answer for the query
cacheItemImpl(s, id) ==
    IF id \in CachedIDs(s.items)
    THEN CHOOSE k \in 1..Len(s.items) : s.items[k].id = id
    ELSE 0

\* a cacheItem that looks the item up before it validates
cacheItem_stale(s, id, visible) ==
    [obj |-> validateItemsCache(s, visible), result |-> cacheItemImpl(s, id)]

\* CacheSpace.cpp:139-143: the object after the call and the entry returned
cacheItem(s, id, visible) ==
    LET v == validateItemsCache(s, visible)
    IN  [obj |-> v, result |-> cacheItemImpl(v, id)]

\* a draw that emits preDraw before it validates the views
draw_toPreDraw_early(s, visible) ==
    IF s.aborted THEN s
    ELSE LET v == validateItemsCache(s, visible)
             g == Log(auto_value(v, TRUE), "preDraw", {})
             w == [g EXCEPT !.items = [k \in forEachCacheItemImpl(g) |->
                                          validateCacheView(g.items[k])]]
         IN  LogItems(w, "validateCacheView")

\* CacheSpace.cpp:195-206: draw up to and including emit preDraw()
draw_toPreDraw(s, visible) ==
    IF s.aborted THEN s
    ELSE LET v == validateItemsCache(s, visible)
             g == auto_value(v, TRUE)
             w == [g EXCEPT !.items = [k \in forEachCacheItemImpl(g) |->
                                          validateCacheView(g.items[k])]]
         IN  Log(LogItems(w, "validateCacheView"), "preDraw", {})

\* CacheSpace.cpp:208-217: painter save, clip, paint every item, restore,
\* end of the scope of inUse
draw_fromPreDraw(s, oldValue) ==
    IF s.aborted THEN s
    ELSE LET c == Log(Log(s, "save", {}), "setClipRect", {})
             d == LogItems(c, "draw")
         IN  auto_value_restore(Log(d, "restore", {}), oldValue)

\* a hit test that enters the guard before it validates
hitTest_toItem_guardFirst(s, visible) ==
    IF s.aborted THEN s
    ELSE LET g == auto_value(s, TRUE)
             v == validateItemsCache(g, visible)
         IN  validateItemsCache(v, visible)

\* CacheSpace.cpp:219-225 and 233-239: validate, guard, cacheItemByPosition
hitTest_toItem(s, visible) ==
    IF s.aborted THEN s
    ELSE LET v == validateItemsCache(s, visible)
             g == auto_value(v, TRUE)
         IN  validateItemsCache(g, visible)

\* CacheSpace.cpp:227-231: hit is the index cacheItemByPosition returned
tryActivateControllers_return(s, oldValue) ==
    IF s.aborted THEN s ELSE auto_value_restore(s, oldValue)

\* a guard that is cleared on exit, whatever it was on entry
tooltipByPoint_return_cleared(s, oldValue) ==
    IF s.aborted THEN s ELSE auto_value_restore(s, FALSE)

\* CacheSpace.cpp:241-245
tooltipByPoint_return(s, oldValue) ==
    IF s.aborted THEN s ELSE auto_value_restore(s, oldValue)

(* ---- operations ------------------------------------------------------ *)
\* CacheSpace.h:58-66: the counters of IterateInfo, as its constructor
\* leaves them
IterateInfo == [cacheItemIndex |-> 0, cacheViewIndex |-> 0]

\* a suspended call: old is the value auto_value puts back, idx and vidx the
\* position of an iteration (item, view node), info the IterateInfo of a
\* forEachCacheView, log what a draw did before it emitted preDraw
Frame(op, oldValue, idx, vidx) ==
    [op |-> op, old |-> oldValue, idx |-> idx, vidx |-> vidx,
     info |-> IterateInfo, log |-> << >>]
Top == stack[Len(stack)]
Pop == SubSeq(stack, 1, Len(stack) - 1)
ReplaceTop(f) == [stack EXCEPT ![Len(stack)] = f]

NoOp == [name |-> "none", reason |-> {}, rect |-> NullRect, point |-> ZeroPoint,
         mask |-> "", id |-> 0, result |-> 0, out |-> ZeroPoint, continue |-> TRUE,
         repeat |-> FALSE]
OpRec(name) == [NoOp EXCEPT !.name = name]

\* repeat: the operation and its arguments are those of the operation before
Stamp(op) == [op EXCEPT !.repeat = ([lastOp EXCEPT !.repeat = FALSE] = op)]

\* the program runs until a Q_ASSERT aborts it; callers may re-enter from
\* any callback, so every suspended frame is a place a call can come from
Running == ~aborted

\* the visible items the Space reports when the validator asks, one of
\* visibles; a valid cache does not ask
Asked(visibles) == IF m_itemsCacheInvalid THEN visibles ELSE { {} }
AnyVisible == SUBSET ItemIDs
AllVisible == { ItemIDs }
SomeVisible == { ItemIDs, {1} }
LastVisible == { ItemIDs, {NumItems} }

Finish(s, op, newStack) ==
    /\ s.factoriesCreated <= MaxFactory
    /\ Apply(s)
    /\ lastOp' = Stamp(op)
    /\ stack' = newStack
    /\ echoChain' = 0

SetWindow(window) ==
    /\ Running
    /\ Finish(setWindow(Fresh, window), [OpRec("setWindow") EXCEPT !.rect = window], stack)

SetScrollOffset(scrollOffset) ==
    /\ Running
    /\ Finish(setScrollOffset(Fresh, scrollOffset),
              [OpRec("setScrollOffset") EXCEPT !.point = scrollOffset], stack)

Set(window, scrollOffset) ==
    /\ Running
    /\ Finish(set(Fresh, window, scrollOffset),
              [OpRec("set") EXCEPT !.rect = window, !.point = scrollOffset], stack)

Clear ==
    /\ Running
    /\ Finish(clear(Fresh), OpRec("clear"), stack)

SetViewApplicationMask(viewApplicationMask) ==
    /\ Running
    /\ Finish(setViewApplicationMask(Fresh, viewApplicationMask),
              [OpRec("setViewApplicationMask") EXCEPT !.mask = viewApplicationMask], stack)

\* the record of a handled SpaceStructure event; after is the object when
\* the handler returned
noteStructure(after, reason) ==
    IF HasBits(reason, {ChangeReasonSpaceStructure}) /\ ~after.aborted
    THEN [after EXCEPT !.dropped = "pending"]
    ELSE after

\* the const conversions: the point handed in and the point returned
Window2Space(windowPoint) ==
    /\ Running
    /\ Finish(Fresh, [OpRec("window2Space") EXCEPT
                         !.point = windowPoint, !.out = window2Space(Fresh, windowPoint)],
              stack)

Space2Window(spacePoint) ==
    /\ Running
    /\ Finish(Fresh, [OpRec("space2Window") EXCEPT
                         !.point = spacePoint, !.out = space2Window(Fresh, spacePoint)],
              stack)

\* the Space emits spaceChanged(space, reason)
SpaceChanged(reason) ==
    /\ Running
    /\ Finish(noteStructure(onSpaceChanged(Fresh, reason), reason),
              [OpRec("onSpaceChanged") EXCEPT !.reason = reason], stack)

\* the last cacheChanged comes back as a Space event of the same reason
EchoCacheChanged ==
    /\ Running
    /\ emitted # << >>
    /\ echoChain < MaxEcho
    /\ LET reason == emitted[Len(emitted)]
           s == noteStructure(onSpaceChanged(Fresh, reason), reason)
       IN  /\ s.factoriesCreated <= MaxFactory
           /\ Apply(s)
           /\ lastOp' = Stamp([OpRec("echo") EXCEPT !.reason = reason])
           /\ echoChain' = IF s.emitted # << >> THEN echoChain + 1 ELSE 0
           /\ UNCHANGED stack

ValidateItemsCache(visible) ==
    /\ Running
    /\ Finish(validateItemsCache(Fresh, visible), OpRec("validateItemsCache"), stack)

CacheItem(id, visible) ==
    /\ Running
    /\ LET r == cacheItem(Fresh, id, visible)
       IN  Finish(r.obj, [OpRec("cacheItem") EXCEPT !.id = id, !.result = r.result], stack)

\* cacheItemByPositionImpl: the subclass's geometry picks one of the cached
\* items, or none
CacheItemByPosition(visible, hit) ==
    /\ Running
    /\ LET s == validateItemsCache(Fresh, visible)
       IN  /\ hit <= Len(s.items)
           /\ Finish(s, [OpRec("cacheItemByPosition") EXCEPT !.result = hit], stack)

\* setDrawProxy: stores the callable (TRUE) or an empty one (FALSE)
setDrawProxy(s, drawProxy) == [s EXCEPT !.drawProxy = drawProxy]

SetDrawProxy(drawProxy) ==
    /\ Running
    /\ Finish(setDrawProxy(Fresh, drawProxy), OpRec("setDrawProxy"), stack)

\* draw runs up to emit preDraw(); the observers of preDraw run while the
\* frame is on the stack.  With logged, the frame keeps what the draw has
\* done so far, and trace at the return is the whole draw.
DrawStart(visible, logged) ==
    /\ Running
    /\ Len(stack) < MaxDepth
    /\ LET s == draw_toPreDraw(Fresh, visible)
       IN  Finish(s, OpRec("draw"),
                  Append(stack, [Frame("draw", m_cacheIsInUse, 0, 0) EXCEPT
                                    !.log = IF logged THEN s.trace ELSE << >>]))

DrawBegin(visible) == DrawStart(visible, FALSE)
DrawBeginLogged(visible) == DrawStart(visible, TRUE)

\* the observers have returned
DrawEnd ==
    /\ Running
    /\ stack # << >>
    /\ Top.op = "draw"
    /\ Finish(draw_fromPreDraw([Fresh EXCEPT !.trace = Top.log], Top.old),
              OpRec("draw.return"), Pop)

\* tryActivateControllers: a miss returns at once, a hit hands the event
\* to the item, whose controllers may call back
TryActivateControllers(visible, hit) ==
    /\ Running
    /\ LET s == hitTest_toItem(Fresh, visible)
       IN  /\ hit <= Len(s.items)
           /\ IF hit = 0
              THEN Finish(tryActivateControllers_return(s, m_cacheIsInUse),
                          OpRec("tryActivateControllers.miss"), stack)
              ELSE /\ Len(stack) < MaxDepth
                   /\ Finish(s, OpRec("tryActivateControllers"),
                             Append(stack, Frame("tryActivateControllers",
                                                 m_cacheIsInUse, 0, 0)))

TryActivateControllersEnd ==
    /\ Running
    /\ stack # << >>
    /\ Top.op = "tryActivateControllers"
    /\ Finish(tryActivateControllers_return(Fresh, Top.old),
              OpRec("tryActivateControllers.return"), Pop)

TooltipByPoint(visible, hit) ==
    /\ Running
    /\ LET s == hitTest_toItem(Fresh, visible)
       IN  /\ hit <= Len(s.items)
           /\ IF hit = 0
              THEN Finish(tooltipByPoint_return(s, m_cacheIsInUse),
                          OpRec("tooltipByPoint.miss"), stack)
              ELSE /\ Len(stack) < MaxDepth
                   /\ Finish(s, OpRec("tooltipByPoint"),
                             Append(stack, Frame("tooltipByPoint", m_cacheIsInUse, 0, 0)))

TooltipByPointEnd ==
    /\ Running
    /\ stack # << >>
    /\ Top.op = "tooltipByPoint"
    /\ Finish(tooltipByPoint_return(Fresh, Top.old), OpRec("tooltipByPoint.return"), Pop)

\* CacheSpace.cpp:151-155: the caller's visitor is called for the items in
\* order; the frame stays on the stack while the visitor runs
ForEachCacheItem ==
    /\ Running
    /\ IF Len(cacheItems) = 0
       THEN Finish(Fresh, [OpRec("forEachCacheItem.return") EXCEPT !.result = 1], stack)
       ELSE /\ Len(stack) < MaxDepth
            /\ Finish(Fresh, OpRec("forEachCacheItem"),
                      Append(stack, Frame("forEachCacheItem", m_cacheIsInUse, 1, 0)))

\* the visitor returns continue; the iteration goes on to the next item or
\* returns
VisitorReturn(continue) ==
    /\ Running
    /\ stack # << >>
    /\ Top.op = "forEachCacheItem"
    /\ IF continue /\ Top.idx < Len(cacheItems)
       THEN Finish(Fresh, [OpRec("visitor") EXCEPT !.continue = continue],
                   ReplaceTop([Top EXCEPT !.idx = @ + 1]))
       ELSE Finish(Fresh, [OpRec("forEachCacheItem.return") EXCEPT
                              !.result = IF continue THEN 1 ELSE 0,
                              !.continue = continue], Pop)

\* first item at or after position i whose view is built, 0 if there is none
NextWithView(items, i) ==
    IF \E k \in i..Len(items) : items[k].view > 0
    THEN CHOOSE k \in i..Len(items) :
             /\ items[k].view > 0
             /\ \A j \in i..(k - 1) : items[j].view = 0
    ELSE 0

\* a lambda that counts only the items it walks the views of
forEachCacheView_noView_uncounted(info, n) ==
    [info EXCEPT !.cacheViewIndex = 0]

\* CacheSpace.cpp:162-180 run for n items in a row whose cacheView() is null:
\* each resets cacheViewIndex (167) and counts the item (178)
forEachCacheView_noView(info, n) ==
    [info EXCEPT !.cacheViewIndex = 0, !.cacheItemIndex = @ + n]

\* CacheSpace.cpp:166-167: the lambda is entered for an item
forEachCacheView_enter(info) == [info EXCEPT !.cacheViewIndex = 0]
\* CacheSpace.cpp:174: the visitor has returned
forEachCacheView_visited(info) == [info EXCEPT !.cacheViewIndex = @ + 1]
\* CacheSpace.cpp:178: the views of the item are done
forEachCacheView_leave(info) == [info EXCEPT !.cacheItemIndex = @ + 1]

\* CacheSpace.cpp:157-181: the frame holds the position of the traversal
\* (item idx, view node vidx of it) and info, which the visitor is handed
ForEachCacheView ==
    /\ Running
    /\ LET first == NextWithView(cacheItems, 1)
       IN  IF first = 0
           THEN Finish(Fresh, [OpRec("forEachCacheView.return") EXCEPT !.result = 1], stack)
           ELSE /\ Len(stack) < MaxDepth
                /\ Finish(Fresh, OpRec("forEachCacheView"),
                          Append(stack,
                                 [Frame("forEachCacheView", m_cacheIsInUse, first, 0) EXCEPT
                                     !.info = forEachCacheView_enter(
                                                  forEachCacheView_noView(IterateInfo,
                                                                          first - 1))]))

\* the visitor returns continue: CacheView::forEachCacheView goes on to the
\* next node, or the lambda returns and forEachCacheItemImpl goes on to the
\* next item; on false both return false at once
ViewVisitorReturn(continue) ==
    /\ Running
    /\ stack # << >>
    /\ Top.op = "forEachCacheView"
    /\ LET inRange == Top.idx <= Len(cacheItems)
           more == inRange /\ Top.vidx + 1 < cacheItems[Top.idx].view
           next == NextWithView(cacheItems, Top.idx + 1)
           visited == forEachCacheView_visited(Top.info)
       IN  IF ~continue
           THEN Finish(Fresh, [OpRec("forEachCacheView.return") EXCEPT !.continue = FALSE],
                       Pop)
           ELSE IF more
           THEN Finish(Fresh, [OpRec("viewVisitor") EXCEPT !.continue = continue],
                       ReplaceTop([Top EXCEPT !.vidx = @ + 1, !.info = visited]))
           ELSE IF next # 0
           THEN Finish(Fresh, [OpRec("viewVisitor") EXCEPT !.continue = continue],
                       ReplaceTop([Top EXCEPT
                           !.idx = next, !.vidx = 0,
                           !.info = forEachCacheView_enter(
                                        forEachCacheView_noView(
                                            forEachCacheView_leave(visited),
                                            next - Top.idx - 1))]))
           ELSE Finish(Fresh, [OpRec("forEachCacheView.return") EXCEPT
                                  !.result = 1, !.continue = continue], Pop)

(* ---- specification --------------------------------------------------- *)
\* CacheSpace.cpp:10-24
Init ==
    /\ m_viewApplicationMask \in Masks
    /\ m_cacheItemsFactory = [mask |-> m_viewApplicationMask, gen |-> 1]
    /\ factoriesCreated = 1
    /\ m_window = QRect(0, 0, 0, 0)
    /\ m_scrollOffset = QPoint(0, 0)
    /\ m_scrollDelta = QPoint(0, 0)
    /\ m_sizeDelta = QSize(0, 0)
    /\ m_itemsCacheInvalid = TRUE
    /\ m_cacheIsInUse = FALSE
    /\ cacheItems = << >>
    /\ debugBuild \in BOOLEAN
    /\ aborted = FALSE
    /\ violation = FALSE
    /\ emitted = << >>
    /\ validatedWindow = m_window
    /\ validatedScrollOffset = m_scrollOffset
    /\ m_drawProxy = FALSE
    /\ fired = FALSE
    /\ trace = << >>
    /\ dropped = "no"
    /\ stack = << >>
    /\ lastOp = NoOp
    /\ echoChain = 0

\* calls that change the window and the scroll position
GeometryCalls(rects, points) ==
    \/ \E window \in rects : SetWindow(window)
    \/ \E scrollOffset \in points : SetScrollOffset(scrollOffset)
    \/ \E window \in rects, scrollOffset \in points : Set(window, scrollOffset)

\* Space events and the other calls that replace or drop what is cached
CacheCalls(reasons) ==
    \/ Clear
    \/ \E viewApplicationMask \in Masks : SetViewApplicationMask(viewApplicationMask)
    \/ \E reason \in reasons : SpaceChanged(reason)

\* calls that validate and read
ReadCalls(visibles) ==
    \/ \E visible \in Asked(visibles) : ValidateItemsCache(visible)
    \/ \E id \in ItemIDs, visible \in Asked(visibles) : CacheItem(id, visible)
    \/ \E visible \in Asked(visibles), hit \in 0..NumItems :
           CacheItemByPosition(visible, hit)

\* draw, hit test and tooltip, entered and left
GuardedCalls(visibles) ==
    \/ \E visible \in Asked(visibles) : DrawBegin(visible)
    \/ DrawEnd
    \/ \E visible \in Asked(visibles), hit \in 0..NumItems :
           TryActivateControllers(visible, hit)
    \/ TryActivateControllersEnd
    \/ \E visible \in Asked(visibles), hit \in 0..NumItems : TooltipByPoint(visible, hit)
    \/ TooltipByPointEnd

\* iterations with a caller's visitor
IterationCalls ==
    \/ ForEachCacheItem
    \/ \E continue \in BOOLEAN : VisitorReturn(continue)
    \/ ForEachCacheView
    \/ \E continue \in BOOLEAN : ViewVisitorReturn(continue)

FewRects == { QRect(0, 0, 0, 0), QRect(0, 0, 1, 1) }
FewPoints == { QPoint(0, 0), QPoint(0, 1) }
SingleReasons == { {b} : b \in ChangeReasonBits }

\* the guard: draw, hit test and tooltip, nested in each other's callbacks,
\* with the calls that invalidate the cache and the validation that fills it
Next ==
    \/ GuardedCalls(AllVisible)
    \/ Clear
    \/ \E window \in FewRects : SetWindow(window)
    \/ \E visible \in Asked(AllVisible) : ValidateItemsCache(visible)

Spec == Init /\ [][Next]_vars

\* the iterations with a caller's visitor, inside and outside a draw
NextIteration ==
    \/ IterationCalls
    \/ \E visible \in Asked(AnyVisible) : DrawBegin(visible)
    \/ DrawEnd
    \/ Clear
    \/ \E window \in FewRects : SetWindow(window)
    \/ \E visible \in Asked(AnyVisible) : ValidateItemsCache(visible)

SpecIteration == Init /\ [][NextIteration]_vars

\* the Space's events of every reason, inside and outside a draw
NextEvents ==
    \/ CacheCalls(ChangeReason)
    \/ EchoCacheChanged
    \/ \E visible \in Asked(SomeVisible) : ValidateItemsCache(visible)
    \/ \E visible \in Asked(SomeVisible) : DrawBegin(visible)
    \/ DrawEnd

SpecEvents == Init /\ [][NextEvents]_vars

\* every call that changes the cache or marks it invalid, inside and outside
\* a draw, a hit test and a tooltip query
NextInUse ==
    \/ GuardedCalls(AllVisible)
    \/ CacheCalls(SingleReasons)
    \/ \E window \in FewRects : SetWindow(window)
    \/ \E scrollOffset \in FewPoints : SetScrollOffset(scrollOffset)
    \/ ReadCalls(AllVisible)

SpecInUse == Init /\ [][NextInUse]_vars

\* the window and the scroll position, inside and outside a draw
NextGeometry ==
    \/ GeometryCalls(RectInputs, PointInputs)
    \/ \E visible \in Asked(AllVisible) : ValidateItemsCache(visible)
    \/ \E visible \in Asked(AllVisible) : DrawBegin(visible)
    \/ DrawEnd

SpecGeometry == Init /\ [][NextGeometry]_vars

\* draws whose preDraw observers change the window or deliver a Space event
\* that rebuilds the factory
NextDraw ==
    \/ \E visible \in Asked(SomeVisible) : DrawBeginLogged(visible)
    \/ DrawEnd
    \/ \E visible \in Asked(SomeVisible) : ValidateItemsCache(visible)
    \/ \E window \in FewRects : SetWindow(window)
    \/ SpaceChanged({ChangeReasonSpaceHint})

SpecDraw == Init /\ [][NextDraw]_vars

\* draws with and without a proxy installed
NextProxy ==
    \/ \E drawProxy \in BOOLEAN : SetDrawProxy(drawProxy)
    \/ \E visible \in Asked(SomeVisible) : DrawBegin(visible)
    \/ DrawEnd
    \/ Clear

SpecProxy == Init /\ [][NextProxy]_vars

\* a reason for each branch of the handler, and one with every bit
EmitReasons == SingleReasons \cup { ChangeReasonBits }

\* every operation that emits cacheChanged, at the top level and called from
\* an item's tooltip code while the guard is held
NextEmit ==
    \/ GeometryCalls(FewRects, FewPoints)
    \/ CacheCalls(EmitReasons)
    \/ \E visible \in Asked(AllVisible) : ValidateItemsCache(visible)
    \/ \E visible \in Asked(AllVisible), hit \in 0..NumItems : TooltipByPoint(visible, hit)
    \/ TooltipByPointEnd

SpecEmit == Init /\ [][NextEmit]_vars

\* points handed to the conversions: inside, on the edge of and outside the
\* window, on both sides of the origin
ProbePoints == { QPoint(x, y) : x \in {-MaxCoord, 0, MaxCoord}, y \in {-MaxScroll, MaxExtent} }

\* conversions under every window and scroll position
NextConvert ==
    \/ GeometryCalls(RectInputs, PointInputs)
    \/ \E windowPoint \in ProbePoints : Window2Space(windowPoint)
    \/ \E spacePoint \in ProbePoints : Space2Window(spacePoint)

SpecConvert == Init /\ [][NextConvert]_vars

NoVisitorSuspended ==
    \A k \in 1..Len(stack) : stack[k].op \notin {"forEachCacheItem", "forEachCacheView"}

\* traversals of the views, at the top level, from a preDraw observer and
\* from a visitor; the cache is refilled between traversals, so that items
\* whose view is not built come before items whose view is
NextViews ==
    \/ IterationCalls
    \/ DrawEnd
    \/ /\ NoVisitorSuspended
       /\ \/ \E visible \in Asked(LastVisible) : DrawBegin(visible)
          \/ \E visible \in Asked(LastVisible) : ValidateItemsCache(visible)
          \/ \E window \in FewRects : SetWindow(window)

SpecViews == Init /\ [][NextViews]_vars

StructureReasons ==
    { {ChangeReasonSpaceStructure},
      {ChangeReasonSpaceStructure, ChangeReasonSpaceHint, ChangeReasonSpaceItemsContent} }

\* SpaceStructure events between validations, reads and iterations; events
\* come at the top level and inside a draw, not from a visitor (an iteration
\* whose container is cleared under it has no defined continuation)
NextStructure ==
    \/ NoVisitorSuspended /\ \E reason \in StructureReasons : SpaceChanged(reason)
    \/ IterationCalls
    \/ \E visible \in Asked(SomeVisible) : ValidateItemsCache(visible)
    \/ \E id \in ItemIDs, visible \in Asked(SomeVisible) : CacheItem(id, visible)
    \/ \E visible \in Asked(SomeVisible) : DrawBegin(visible)
    \/ DrawEnd

SpecStructure == Init /\ [][NextStructure]_vars

\* the calls that read the cache, with the calls that invalidate it, inside
\* and outside a draw, a hit test and a tooltip query
NextRead ==
    \/ ReadCalls(SomeVisible)
    \/ GuardedCalls(SomeVisible)
    \/ \E window \in FewRects : SetWindow(window)

SpecRead == Init /\ [][NextRead]_vars

(* ---- claims ---------------------------------------------------------- *)
GuardOps == { "draw", "tryActivateControllers", "tooltipByPoint" }
VisitorOps == { "forEachCacheItem", "forEachCacheView" }
InVisitor == stack # << >> /\ Top.op \in VisitorOps
GuardHeldBelow(k) == \E j \in 1..(k - 1) : stack[j].op \in GuardOps

\* C1: a clear(), or a setWindow(r) with r other than the current window,
\* called from inside the visitor of forEachCacheItem or forEachCacheView
\* trips the in-use assertion.
C1_VisitorMutationDetected ==
    [][ ( /\ InVisitor
          /\ \/ lastOp'.name = "clear"
             \/ lastOp'.name = "setWindow" /\ lastOp'.rect # m_window )
        => violation' ]_vars

\* C3: m_cacheIsInUse is true exactly while a draw, tryActivateControllers
\* or tooltipByPoint is in progress; the value saved on entry is the one
\* the flag had then, and every return, the early return on a miss and the
\* return of a nested call included, puts that value back.
C3_GuardScoped ==
    /\ [] ( /\ m_cacheIsInUse = (\E k \in 1..Len(stack) : stack[k].op \in GuardOps)
            /\ \A k \in 1..Len(stack) :
                   stack[k].op \in GuardOps => stack[k].old = GuardHeldBelow(k) )
    /\ [][ /\ lastOp'.name \in { "draw.return", "tryActivateControllers.return",
                                 "tooltipByPoint.return" }
              => m_cacheIsInUse' = Top.old
           /\ lastOp'.name \in { "tryActivateControllers.miss", "tooltipByPoint.miss" }
              => m_cacheIsInUse' = m_cacheIsInUse ]_vars

\* a tooltipByPoint called from a preDraw observer has returned and the
\* draw it was called from is still in progress
C3_Witness ==
    /\ lastOp.name \in { "tooltipByPoint.return", "tooltipByPoint.miss" }
    /\ stack # << >>
    /\ Top.op = "draw"
    /\ m_cacheIsInUse

IsEvent(op) == op.name \in { "onSpaceChanged", "echo" }
StructureBits == { ChangeReasonSpaceStructure }
RebuildBits == { ChangeReasonSpaceHint, ChangeReasonSpaceItemsStructure }
ContentBits == { ChangeReasonSpaceItemsContent }
ActedOnBits == StructureBits \cup RebuildBits \cup ContentBits

\* the fields of the object and of its items, without the record of what the
\* last operation emitted and detected
fieldVars == << m_viewApplicationMask, m_cacheItemsFactory, m_window, m_scrollOffset,
                m_scrollDelta, m_sizeDelta, m_itemsCacheInvalid, m_cacheIsInUse,
                cacheItems, factoriesCreated >>

\* C2: while m_cacheIsInUse is true, clear(), a setWindow or setScrollOffset
\* that changes the window or the offset, a setViewApplicationMask with
\* another mask and a Space event with SpaceStructure, SpaceHint or
\* SpaceItemsStructure each trip the in-use assertion.
C2_InUseMutationDetected ==
    [][ ( /\ m_cacheIsInUse
          /\ \/ lastOp'.name = "clear"
             \/ lastOp'.name = "setWindow" /\ lastOp'.rect # m_window
             \/ lastOp'.name = "setScrollOffset" /\ lastOp'.point # m_scrollOffset
             \/ /\ lastOp'.name = "setViewApplicationMask"
                /\ lastOp'.mask # m_viewApplicationMask
             \/ /\ IsEvent(lastOp')
                /\ HasBits(lastOp'.reason, StructureBits \cup RebuildBits) )
        => violation' ]_vars

\* C4: a Space event whose reason has SpaceStructure, whatever its other
\* bits, and whose handler runs to its end drops every cached item, sets
\* m_itemsCacheInvalid, leaves the factory and creates none, and emits one
\* cacheChanged, of reason CacheContent alone.
C4_StructureClearsOnce ==
    [][ ( /\ IsEvent(lastOp')
          /\ HasBits(lastOp'.reason, StructureBits)
          /\ ~aborted' )
        => /\ cacheItems' = << >>
           /\ m_itemsCacheInvalid'
           /\ m_cacheItemsFactory' = m_cacheItemsFactory
           /\ factoriesCreated' = factoriesCreated
           /\ emitted' = << {ChangeReasonCacheContent} >> ]_vars

\* a structure event that carried every other bit too has emptied the cache
C4_Witness ==
    /\ lastOp.name = "onSpaceChanged"
    /\ lastOp.reason = ChangeReasonBits
    /\ cacheItems = << >>
    /\ emitted = << {ChangeReasonCacheContent} >>
    /\ factoriesCreated = 1

\* C5: a Space event with SpaceHint or SpaceItemsStructure and without
\* SpaceStructure keeps the cached ItemIDs, installs a factory the Space
\* newly made for the current mask, leaves every item with its view
\* invalidated and its schema updated once by that factory, and emits one
\* cacheChanged, of reason R | CacheContent.
C5_HintRebuildsInPlace ==
    [][ ( /\ IsEvent(lastOp')
          /\ HasBits(lastOp'.reason, RebuildBits)
          /\ ~HasBits(lastOp'.reason, StructureBits) )
        => /\ m_cacheItemsFactory'.mask = m_viewApplicationMask
           /\ m_cacheItemsFactory'.gen > factoriesCreated
           /\ Len(cacheItems') = Len(cacheItems)
           /\ \A k \in 1..Len(cacheItems) :
                  /\ cacheItems'[k].id = cacheItems[k].id
                  /\ cacheItems'[k].view = 0
                  /\ cacheItems'[k].schema = m_cacheItemsFactory'.gen
                  /\ cacheItems'[k].schemaCount = cacheItems[k].schemaCount + 1
           /\ emitted' = << lastOp'.reason \cup {ChangeReasonCacheContent} >> ]_vars

\* a hint event has found every item cached and has updated them for the
\* second time
C5_Witness ==
    /\ lastOp.name = "onSpaceChanged"
    /\ lastOp.reason = { ChangeReasonSpaceHint }
    /\ Len(cacheItems) = NumItems
    /\ \A k \in 1..Len(cacheItems) : cacheItems[k].schemaCount = 2 /\ cacheItems[k].view = 0
    /\ emitted = << { ChangeReasonSpaceHint, ChangeReasonCacheContent } >>

\* C6: a Space event with SpaceItemsContent and none of SpaceStructure,
\* SpaceHint, SpaceItemsStructure emits one cacheChanged(R | CacheContent)
\* and changes no field of the object and no item.
C6_ContentForwardsOnly ==
    [][ ( /\ IsEvent(lastOp')
          /\ HasBits(lastOp'.reason, ContentBits)
          /\ ~HasBits(lastOp'.reason, StructureBits \cup RebuildBits) )
        => /\ emitted' = << lastOp'.reason \cup {ChangeReasonCacheContent} >>
           /\ UNCHANGED fieldVars
           /\ aborted' = aborted
           /\ ~violation' ]_vars

\* a content event has been forwarded while items with built views are cached
C6_Witness ==
    /\ lastOp.name = "onSpaceChanged"
    /\ lastOp.reason = { ChangeReasonSpaceItemsContent, ChangeReasonUnknown }
    /\ emitted = << { ChangeReasonSpaceItemsContent, ChangeReasonUnknown,
                      ChangeReasonCacheContent } >>
    /\ Len(cacheItems) = NumItems
    /\ \A k \in 1..Len(cacheItems) : cacheItems[k].view > 0

\* a Space event the handler does not act on is ignored
IgnoredEvents ==
    [][ ( IsEvent(lastOp') /\ ~HasBits(lastOp'.reason, ActedOnBits) )
        => /\ emitted' = << >>
           /\ UNCHANGED fieldVars
           /\ aborted' = aborted
           /\ ~violation'
           /\ echoChain' = 0 ]_vars

C8_SameValueIsNoOp ==
    [][ ( /\ lastOp'.name \in { "setWindow", "setScrollOffset" }
          /\ lastOp'.repeat )
        => /\ emitted' = << >>
           /\ UNCHANGED << m_window, m_scrollOffset, m_scrollDelta, m_sizeDelta,
                           m_itemsCacheInvalid >> ]_vars

\* C9: scrollDelta is the mapping origin (window.topLeft - scrollOffset) now
\* minus the origin at the last completed validation, and sizeDelta the
\* window size now minus the size then; a setWindow adds the displacement of
\* the top-left corner, a setScrollOffset adds the negated change of the
\* offset.
C9_JournalsAreAdditive ==
    /\ [] ( /\ m_scrollDelta =
                   PointSub(PointSub(topLeft(m_window), m_scrollOffset),
                            PointSub(topLeft(validatedWindow), validatedScrollOffset))
            /\ m_sizeDelta = SizeSub(size(m_window), size(validatedWindow)) )
    /\ [][ /\ lastOp'.name = "setWindow"
              => /\ m_scrollDelta' =
                        PointAdd(m_scrollDelta,
                                 PointSub(topLeft(m_window'), topLeft(m_window)))
                 /\ m_sizeDelta' =
                        SizeAdd(m_sizeDelta, SizeSub(size(m_window'), size(m_window)))
           /\ lastOp'.name = "setScrollOffset"
              => /\ m_scrollDelta' =
                        PointSub(m_scrollDelta, PointSub(m_scrollOffset', m_scrollOffset))
                 /\ m_sizeDelta' = m_sizeDelta ]_vars

\* after a validation away from the initial geometry, a set has moved the
\* window, resized it and scrolled
C9_Witness ==
    /\ lastOp.name = "set"
    /\ validatedWindow # NullRect
    /\ validatedScrollOffset # ZeroPoint
    /\ topLeft(m_window) # topLeft(validatedWindow)
    /\ m_scrollOffset # validatedScrollOffset
    /\ m_sizeDelta # ZeroSize
    /\ m_scrollDelta # ZeroPoint

\* C10: after validateItemsCache, whatever setWindow and setScrollOffset
\* calls came before it, scrollDelta = (0,0), sizeDelta = (0,0) and
\* m_itemsCacheInvalid = false.
C10_ValidationZeroesJournals ==
    lastOp.name \in { "validateItemsCache", "draw" }
    => /\ m_scrollDelta = ZeroPoint
       /\ m_sizeDelta = ZeroSize
       /\ ~m_itemsCacheInvalid

\* a validation has run on a window and an offset that were both changed
C10_Witness ==
    /\ lastOp.name = "validateItemsCache"
    /\ m_window # NullRect
    /\ m_scrollOffset # ZeroPoint
    /\ validatedWindow = m_window
    /\ validatedScrollOffset = m_scrollOffset
    /\ ~m_itemsCacheInvalid

ReadOps == { "cacheItem", "cacheItemByPosition", "draw", "tryActivateControllers",
             "tryActivateControllers.miss", "tooltipByPoint", "tooltipByPoint.miss" }
ImplRuns(tr) == Len(Events(tr, "validateItemsCacheImpl"))

\* what the step has done: trace', without the part of a draw that was done
\* before its preDraw
NewSteps ==
    IF lastOp'.name = "draw.return"
    THEN SubSeq(trace', Len(Top.log) + 1, Len(trace'))
    ELSE trace'

\* C11: cacheItem, cacheItemByPosition, draw, tryActivateControllers and
\* tooltipByPoint called with m_itemsCacheInvalid = true run
\* validateItemsCacheImpl once, as their first step, and what they read is
\* the validated cache; called with m_itemsCacheInvalid = false they do not
\* run it.  It runs only when the flag is set and leaves it cleared, and
\* only an invalidation sets the flag, so it runs at most once between two
\* invalidations.
C11_LazyValidation ==
    /\ [][ lastOp'.name \in ReadOps
              => /\ ImplRuns(trace') = (IF m_itemsCacheInvalid THEN 1 ELSE 0)
                 /\ m_itemsCacheInvalid => trace'[1].ev = "validateItemsCacheImpl"
                 /\ ~m_itemsCacheInvalid'
                 /\ lastOp'.name = "cacheItem"
                    => lastOp'.result = cacheItemImpl([items |-> cacheItems'], lastOp'.id)
          ]_vars
    /\ [][ /\ ImplRuns(NewSteps) > 0
              => m_itemsCacheInvalid /\ ImplRuns(NewSteps) = 1 /\ ~m_itemsCacheInvalid'
           /\ (~m_itemsCacheInvalid /\ m_itemsCacheInvalid')
              => Events(trace', "itemsCacheInvalid") # << >> ]_vars

\* a tooltip query on an invalid cache has validated once, although it asks
\* for the validation twice, and has found an item
C11_Witness ==
    /\ lastOp.name = "tooltipByPoint"
    /\ ImplRuns(trace) = 1
    /\ trace[1].ev = "validateItemsCacheImpl"
    /\ trace[2].ev = "inUse"
    /\ Len(cacheItems) > 0

\* C12: after setViewApplicationMask(m) the mask is m, the factory is one
\* the Space made for m and every cached item carries that factory's schema;
\* when m is not the mask before the call, one cacheChanged(CacheContent) is
\* emitted; a second consecutive setViewApplicationMask(m) changes nothing
\* and emits nothing.
C12_MaskReplaced ==
    [][ lastOp'.name = "setViewApplicationMask"
        => /\ m_viewApplicationMask' = lastOp'.mask
           /\ m_cacheItemsFactory'.mask = lastOp'.mask
           /\ \A k \in 1..Len(cacheItems') :
                  cacheItems'[k].schema = m_cacheItemsFactory'.gen
           /\ lastOp'.mask # m_viewApplicationMask
              => emitted' = << {ChangeReasonCacheContent} >>
           /\ lastOp'.repeat => (emitted' = << >> /\ UNCHANGED fieldVars) ]_vars

\* C13: with a draw proxy installed, one call of draw invokes the proxy once
\* and emits preDraw once.
C13_ProxyInvokedOnce ==
    (lastOp.name = "draw" /\ m_drawProxy)
    => /\ Len(Events(trace, "drawProxy")) = 1
       /\ Len(Events(trace, "preDraw")) = 1

\* C14: a SpaceStructure event whose handler returns leaves the cache empty,
\* every item cached before it dropped; until the next validation runs the
\* cache stays empty, and forEachCacheItem and forEachCacheView called then
\* return true without a visitor call.
C14_StructureDropsEveryItem ==
    /\ [][ ( /\ IsEvent(lastOp')
             /\ HasBits(lastOp'.reason, StructureBits)
             /\ ~aborted' )
           => /\ cacheItems' = << >>
              /\ dropped' = "pending"
              /\ Events(trace', "clearItemsCacheImpl")
                     = << Event("clearItemsCacheImpl", CachedIDs(cacheItems)) >> ]_vars
    /\ [] ( dropped = "pending" => cacheItems = << >> )
    /\ [][ ( /\ dropped = "pending"
             /\ lastOp'.name \in { "forEachCacheItem", "forEachCacheView",
                                   "forEachCacheItem.return", "forEachCacheView.return" }
             /\ Len(stack') >= Len(stack) )
           => /\ lastOp'.name \in { "forEachCacheItem.return", "forEachCacheView.return" }
              /\ lastOp'.result = 1
              /\ stack' = stack
              /\ dropped' = "pending" ]_vars

\* a SpaceStructure event has come while every item was cached with its view
\* built, and has dropped them all
C14_Witness ==
    /\ lastOp.name = "onSpaceChanged"
    /\ dropped = "pending"
    /\ Events(trace, "clearItemsCacheImpl") = << Event("clearItemsCacheImpl", ItemIDs) >>
    /\ cacheItems = << >>
    /\ ~fired

\* C15, as stated: with items in the cache, the cacheItem(id) that comes
\* right after a SpaceStructure event returns null, for every id.
C15_NullAfterStructure ==
    [][ ( /\ dropped = "pending"
          /\ IsEvent(lastOp)
          /\ Events(trace, "clearItemsCacheImpl") # << >>
          /\ Events(trace, "clearItemsCacheImpl")[1].ids # {}
          /\ lastOp'.name = "cacheItem" )
        => lastOp'.result = 0 ]_vars

\* C15, amended: the first cacheItem(id) after a SpaceStructure event
\* validates first: validateItemsCacheImpl runs once, as the first step, and
\* refills the cache with the items the Space reports visible; the call
\* returns null exactly for an id that is not among them, and for a visible
\* id the entry returned is one made by that validation (view not built,
\* schema never updated), not the entry cached before the event.
C15_RevalidatesAfterStructure ==
    [][ ( dropped = "pending" /\ lastOp'.name = "cacheItem" )
        => /\ ImplRuns(trace') = 1
           /\ trace'[1].ev = "validateItemsCacheImpl"
           /\ dropped' = "refilled"
           /\ CachedIDs(cacheItems') = trace'[1].ids
           /\ (lastOp'.result = 0) = (lastOp'.id \notin trace'[1].ids)
           /\ lastOp'.result # 0
              => /\ cacheItems'[lastOp'.result].id = lastOp'.id
                 /\ cacheItems'[lastOp'.result].view = 0
                 /\ cacheItems'[lastOp'.result].schemaCount = 0
                 /\ cacheItems'[lastOp'.result].schema = m_cacheItemsFactory.gen ]_vars

\* the first cacheItem after a SpaceStructure event has returned an entry
C15_Witness ==
    /\ lastOp.name = "cacheItem"
    /\ dropped = "refilled"
    /\ lastOp.result # 0
    /\ cacheItems[lastOp.result].id = lastOp.id
    /\ ~m_itemsCacheInvalid

\* C16: at every visitor call of forEachCacheView, cacheItemIndex is the
\* number of cache items before the current one in iteration order, the
\* items without a built view counted, and cacheViewIndex the number of view
\* nodes of the current item visited before this one; the visitor is called
\* again only after it returned true, and the traversal returns true only
\* when the last visitor call returned true and no node is left.
C16_ViewIndices ==
    /\ [] \A k \in 1..Len(stack) :
              stack[k].op = "forEachCacheView"
              => /\ stack[k].idx \in 1..Len(cacheItems)
                 /\ stack[k].vidx < cacheItems[stack[k].idx].view
                 /\ stack[k].info.cacheItemIndex = stack[k].idx - 1
                 /\ stack[k].info.cacheViewIndex = stack[k].vidx
    /\ [][ /\ lastOp'.name \in { "viewVisitor", "visitor" } => lastOp'.continue
           /\ ( /\ lastOp'.name \in { "forEachCacheView.return", "forEachCacheItem.return" }
                /\ Len(stack') < Len(stack) )
              => /\ (lastOp'.result = 1) = lastOp'.continue
                 /\ ( lastOp'.result = 1 /\ Top.op = "forEachCacheView" )
                    => /\ Top.vidx + 1 = cacheItems[Top.idx].view
                       /\ NextWithView(cacheItems, Top.idx + 1) = 0 ]_vars

\* the visitor is at the second view node of the last item, and the items
\* before it have no view
C16_Witness ==
    /\ stack # << >>
    /\ Top.op = "forEachCacheView"
    /\ Top.idx = NumItems
    /\ Top.info.cacheItemIndex = NumItems - 1
    /\ Top.info.cacheViewIndex = 1
    /\ \A k \in 1..(NumItems - 1) : cacheItems[k].view = 0

\* C17: under every window and scroll offset, for every point p:
\* space2Window(window2Space(p)) = p, window2Space(space2Window(p)) = p,
\* space2Window(p) = p + originPos() with originPos() = window.topLeft -
\* scrollOffset, and neither conversion changes a field of the object or
\* emits.
C17_ConversionsAreInverse ==
    [][ /\ lastOp'.name = "window2Space"
           => /\ space2Window(Cur, lastOp'.out) = lastOp'.point
              /\ PointAdd(lastOp'.out, originPos(Cur)) = lastOp'.point
              /\ UNCHANGED fieldVars
              /\ emitted' = << >>
        /\ lastOp'.name = "space2Window"
           => /\ window2Space(Cur, lastOp'.out) = lastOp'.point
              /\ lastOp'.out = PointAdd(lastOp'.point, originPos(Cur))
              /\ originPos(Cur) = PointSub(topLeft(m_window), m_scrollOffset)
              /\ UNCHANGED fieldVars
              /\ emitted' = << >> ]_vars

\* a point has been converted under a window away from the origin and a
\* scroll offset, and the result is another point
C17_Witness ==
    /\ lastOp.name = "window2Space"
    /\ topLeft(m_window) # ZeroPoint
    /\ m_scrollOffset # ZeroPoint
    /\ lastOp.out # lastOp.point
    /\ lastOp.out = QPoint(lastOp.point.x - m_window.x1 + m_scrollOffset.x,
                           lastOp.point.y - m_window.y1 + m_scrollOffset.y)

Names(tr) == [k \in 1..Len(tr) |-> tr[k].ev]
Repeat(ev, n) == [k \in 1..n |-> ev]
ItemsOf(tr, ev) == [k \in 1..Len(Events(tr, ev)) |-> Events(tr, ev)[k].ids]
IDSets(items) == [k \in 1..Len(items) |-> {items[k].id}]

\* C18: a draw that returns has done, in this order: the validation of the
\* items cache (the subclass validation when the cache was invalid), the
\* entry into the guard, validateCacheView on every cached item, one
\* preDraw, painter save, clip, the draw of every cached item in iteration
\* order, painter restore.  At preDraw every cached item has had its view
\* validated and has it built; unless an assertion fired in between, the
\* items painted are those whose views were validated.
C18_DrawPipelineOrder ==
    /\ [][ lastOp'.name = "draw"
           => /\ ItemsOf(trace', "validateCacheView") = IDSets(cacheItems')
              /\ \A k \in 1..Len(cacheItems') : cacheItems'[k].view > 0
              /\ Events(trace', "draw") = << >>
              /\ trace'[Len(trace')].ev = "preDraw"
              /\ m_cacheIsInUse' ]_vars
    /\ [][ lastOp'.name = "draw.return"
           => LET nV == Len(Events(trace', "validateCacheView"))
                  nD == Len(Events(trace', "draw"))
                  pre == IF trace'[1].ev = "validateItemsCacheImpl"
                         THEN << "validateItemsCacheImpl" >> ELSE << >>
              IN  /\ Names(trace') =
                         pre \o << "inUse" >> \o Repeat("validateCacheView", nV)
                             \o << "preDraw", "save", "setClipRect" >>
                             \o Repeat("draw", nD) \o << "restore" >>
                  /\ ItemsOf(trace', "draw") = IDSets(cacheItems)
                  /\ ~fired' => ItemsOf(trace', "draw") = ItemsOf(trace', "validateCacheView")
          ]_vars

\* a draw that found the cache invalid has validated it, has painted every
\* item and has returned
C18_Witness ==
    /\ lastOp.name = "draw.return"
    /\ trace[1].ev = "validateItemsCacheImpl"
    /\ ItemsOf(trace, "draw") = IDSets(cacheItems)
    /\ Len(cacheItems) = NumItems
    /\ ~fired
    /\ ~m_cacheIsInUse

\* C19: every cacheChanged emitted, by whatever operation, has the
\* CacheContent bit in its reason; every assignment of true to
\* m_itemsCacheInvalid, by clear, by a setter that changes the window or the
\* offset or by a SpaceStructure event, is followed at once by one
\* cacheChanged and not by a second one, and the flag never becomes true in
\* another way.
C19_InvalidationAnnounced ==
    /\ [] \A k \in 1..Len(emitted) : ChangeReasonCacheContent \in emitted[k]
    /\ [] ( /\ Len(Events(trace, "cacheChanged")) = Len(emitted)
            /\ \A i \in 1..Len(trace) :
                   trace[i].ev = "itemsCacheInvalid"
                   => /\ i < Len(trace)
                      /\ trace[i + 1].ev = "cacheChanged"
                      /\ i + 2 <= Len(trace) => trace[i + 2].ev # "cacheChanged" )
    /\ [][ /\ (m_itemsCacheInvalid' /\ ~m_itemsCacheInvalid)
              => Events(trace', "itemsCacheInvalid") # << >>
           /\ lastOp'.name \in { "clear", "setWindow", "setScrollOffset", "set" }
              => Len(emitted') = Len(Events(trace', "itemsCacheInvalid"))
           /\ ( lastOp'.name \in { "clear", "setWindow", "setScrollOffset" }
                /\ m_itemsCacheInvalid' /\ ~m_itemsCacheInvalid )
              => emitted' = << {ChangeReasonCacheContent} >> ]_vars

\* a set has changed the window and the offset of a valid cache: two
\* invalidations, each with its emission
C19_Witness ==
    /\ lastOp.name = "set"
    /\ Names(trace) = << "itemsCacheInvalid", "cacheChanged",
                         "itemsCacheInvalid", "cacheChanged" >>
    /\ emitted = << {ChangeReasonCacheContent}, {ChangeReasonCacheContent} >>
    /\ m_itemsCacheInvalid
    /\ validatedWindow # m_window

\* the steps of tr that come after its first entry into the guard
AfterGuard(tr) ==
    IF \E i \in 1..Len(tr) : tr[i].ev = "inUse"
    THEN SubSeq(tr, (CHOOSE i \in 1..Len(tr) :
                        tr[i].ev = "inUse" /\ \A j \in 1..(i - 1) : tr[j].ev # "inUse") + 1,
                Len(tr))
    ELSE << >>

\* C20: as long as no assertion has fired, m_cacheIsInUse = true implies
\* m_itemsCacheInvalid = false; so no operation runs validateItemsCacheImpl
\* while the guard is held: not the validateItemsCache that
\* cacheItemByPosition makes inside tryActivateControllers and
\* tooltipByPoint, after the guard is entered, and not a call made from a
\* callback of a guarded operation.
C20_GuardImpliesValid ==
    /\ [] ( (m_cacheIsInUse /\ ~fired) => ~m_itemsCacheInvalid )
    /\ [][ ~fired'
           => /\ ImplRuns(AfterGuard(trace')) = 0
              /\ m_cacheIsInUse => ImplRuns(NewSteps) = 0 ]_vars

\* a tryActivateControllers on an invalid cache has validated, entered the
\* guard and found an item; its second validation did nothing
C20_Witness ==
    /\ lastOp.name = "tryActivateControllers"
    /\ Names(trace) = << "validateItemsCacheImpl", "inUse" >>
    /\ m_cacheIsInUse
    /\ ~m_itemsCacheInvalid
    /\ ~fired

====
